---- MODULE Spec2Model ----
(***************************************************************************)
(* Model of scripts/reprocess.py (m-lab/etl): the ArchiveProcessor class   *)
(* (constructor, post, list_date, post_whole_day) and the script's main.   *)
(*                                                                         *)
(* Three specifications share the variables and the actions:               *)
(*   Spec      an ArchiveProcessor built with any queue count, its methods *)
(*             called in any order, post_whole_day in sweeps over          *)
(*             consecutive days;                                           *)
(*   SpecList  the methods called in any order against stores large enough *)
(*             to need several pages;                                      *)
(*   SpecMain  one run of main(argv).                                      *)
(***************************************************************************)
EXTENDS Integers, Sequences, FiniteSets, TLC

VARIABLES
    bucket_exists,  \* object store: does the configured bucket exist
    store,          \* object store: the bucket's keys, in listing order
    page_limit,     \* object store: the most keys it returns in one page
    rejects,        \* task queue service: the keys whose enqueue it refuses
    args,           \* the arguments ArchiveProcessor was constructed with
    processor,      \* the ArchiveProcessor's attributes
    oops,           \* 'Oops no bucket' was printed
    pc,             \* position of the running call
    caller,         \* "api": methods called directly; "main": the script
    list_day,       \* list_date's date argument
    it,             \* list_date's local iterator (it)
    page,           \* list_date's current page (p): the items not yet taken
    listed,         \* the keys list_date has printed in this call
    listings,       \* history: (date, keys printed) of the finished list_date calls
    log,            \* history: post_whole_day's (date, queue_name) over a sweep
    submitted,      \* task queue service: the (queue, key) tasks enqueued
    attempted,      \* task queue service: the keys whose enqueue was requested
    last_call,      \* the method that ran last
    ret,            \* what it returned
    raised,         \* the exception that left it ("none": returned normally)
    argv,           \* main: the command line
    parsed,         \* main: parse_cmdline's result
    today,          \* main: datetime.date.today()
    days_listed     \* main: the dates list_date was called with

vars == <<bucket_exists, store, page_limit, rejects, args, processor, oops, pc,
          caller, list_day, it, page, listed, listings, log, submitted,
          attempted, last_call, ret, raised, argv, parsed, today, days_listed>>

envVars == <<bucket_exists, store, page_limit, rejects>>
mainVars == <<argv, parsed, today, days_listed>>
listVars == <<list_day, it, page, listed, listings>>
queueVars == <<submitted, attempted>>

-----------------------------------------------------------------------------
(* Bounds of the model.                                                    *)

\* Queue counts range over -NegQueues .. MaxQueues.
NegQueues == 1
MaxQueues == 11
\* The longest run of consecutive days one routing sweep covers.
MaxSweep == 12
\* The most keys the store holds under one day's prefix.
MaxBlobs == 12
\* The largest page the store returns.
MaxPage == 4
\* The most list_date calls one behaviour finishes.
MaxCalls == 3

-----------------------------------------------------------------------------
(* Calendar dates: datetime.date as the source uses it.                    *)

Date(y, m, d) == [y |-> y, m |-> m, d |-> d]
NoDate == Date(0, 0, 0)

\* datetime._is_leap
IsLeap(y) == y % 4 = 0 /\ (y % 100 # 0 \/ y % 400 = 0)

\* datetime._days_in_month
DaysInMonth(y, m) ==
    IF m = 2 THEN (IF IsLeap(y) THEN 29 ELSE 28)
    ELSE IF m \in {4, 6, 9, 11} THEN 30 ELSE 31

\* datetime._days_before_year: days before January 1st of year y
DaysBeforeYear(y) ==
    LET y1 == y - 1 IN y1 * 365 + (y1 \div 4) - (y1 \div 100) + (y1 \div 400)

RECURSIVE DaysBeforeMonth(_, _)
\* datetime._days_before_month: days of year y before the first of month m
DaysBeforeMonth(y, m) ==
    IF m = 1 THEN 0 ELSE DaysBeforeMonth(y, m - 1) + DaysInMonth(y, m - 1)

\* toordinal with the month offsets of a common year: February 29th and
\* March 1st of a leap year get the same ordinal.
toordinalNoLeapDay(date) ==
    DaysBeforeYear(date.y) + DaysBeforeMonth(1, date.m) + date.d

\* date.toordinal(): the proleptic Gregorian ordinal, 0001-01-01 being day 1
toordinal(date) ==
    DaysBeforeYear(date.y) + DaysBeforeMonth(date.y, date.m) + date.d

\* date + datetime.timedelta(days=1)
NextDay(date) ==
    IF date.d < DaysInMonth(date.y, date.m) THEN Date(date.y, date.m, date.d + 1)
    ELSE IF date.m < 12 THEN Date(date.y, date.m + 1, 1)
    ELSE Date(date.y + 1, 1, 1)

\* date - datetime.timedelta(days=1)
PrevDay(date) ==
    IF date.d > 1 THEN Date(date.y, date.m, date.d - 1)
    ELSE IF date.m > 1 THEN Date(date.y, date.m - 1, DaysInMonth(date.y, date.m - 1))
    ELSE Date(date.y - 1, 12, 31)

-----------------------------------------------------------------------------
(* String formatting: str.format as the source uses it.                    *)

Digit(n) ==
    CASE n = 0 -> "0" [] n = 1 -> "1" [] n = 2 -> "2" [] n = 3 -> "3"
      [] n = 4 -> "4" [] n = 5 -> "5" [] n = 6 -> "6" [] n = 7 -> "7"
      [] n = 8 -> "8" [] n = 9 -> "9"

RECURSIVE Decimal(_)
\* '{}'.format(n) for an integer n >= 0
Decimal(n) == IF n < 10 THEN Digit(n) ELSE Decimal(n \div 10) \o Digit(n % 10)

RECURSIVE ZeroPad(_, _)
\* a number as strftime prints it: decimal, zero-padded to width w
ZeroPad(n, w) == IF w <= 1 THEN Decimal(n) ELSE
                 IF Len(Decimal(n)) >= w THEN Decimal(n)
                 ELSE "0" \o ZeroPad(n, w - 1)

\* '{:%Y/%m/%d}'.format(date)
FormatDate(date) ==
    ZeroPad(date.y, 4) \o "/" \o ZeroPad(date.m, 2) \o "/" \o ZeroPad(date.d, 2)

\* list_date: prefix = '{}{:%Y/%m/%d}'.format(self.file_prefix, date)
ListPrefix(self, date) == self.file_prefix \o FormatDate(date)

\* str.startswith
StartsWith(s, p) == Len(s) >= Len(p) /\ SubSeq(s, 1, Len(p)) = p

-----------------------------------------------------------------------------
(* The object store (google.cloud.storage) as list_date uses it.           *)

\* The attribute self.bucket when __init__ never assigned it.
NoAttr == "<no attribute>"

BucketName == "archive-mlab-oti"

\* The two days the stores of the model hold objects for.
D1 == Date(2017, 10, 25)
D2 == Date(2017, 1, 5)
ListDates == {D1, D2}

\* The keys of n objects archived under one directory.
KeysUnder(dir, n) == [i \in 1 .. n |-> dir \o ZeroPad(i, 2) \o ".tgz"]

\* A bucket holding n1 objects for D1 and n2 for D2, in listing
\* (lexicographic) order.
StoreOf(n1, n2) == KeysUnder("ndt/2017/01/05/", n2) \o KeysUnder("ndt/2017/10/25/", n1)

\* The keys of the bucket that start with prefix, in listing order.
Matching(prefix) == SelectSeq(store, LAMBDA k : StartsWith(k, prefix))

\* list_blobs(max_results=10): the most blobs the iterator returns in all.
MaxResults == 10

Min(a, b) == IF a <= b THEN a ELSE b

\* it = self.bucket.list_blobs(prefix=prefix, max_results=10): a fresh
\* iterator, local to the call; nothing is requested until it is iterated.
NewIterator(prefix) ==
    [prefix |-> prefix, max_results |-> MaxResults, num_results |-> 0,
     page_number |-> 0, token |-> 0, has_token |-> FALSE]

NoIterator == NewIterator("")

\* HTTPIterator._has_next_page
HasNextPage(i) ==
    IF i.page_number = 0 THEN TRUE
    ELSE IF i.num_results >= i.max_results THEN FALSE
    ELSE i.has_token

\* The store's answer to one page request: at most maxResults keys, and at
\* most page_limit of them, from the page token on.
PageItems(i) ==
    LET all == Matching(i.prefix)
        k == Min(Min(i.max_results - i.num_results, page_limit), Len(all) - i.token)
    IN SubSeq(all, i.token + 1, i.token + k)

\* HTTPIterator._next_page and _page_iter: the iterator after the page.
AfterPage(i) ==
    LET n == Len(PageItems(i)) IN
    [i EXCEPT !.page_number = @ + 1, !.num_results = @ + n, !.token = @ + n,
              !.has_token = (i.token + n < Len(Matching(i.prefix)))]

Range(s) == {s[i] : i \in DOMAIN s}

-----------------------------------------------------------------------------
(* ArchiveProcessor.                                                       *)

Unbuilt == [file_prefix |-> "", queue_base |-> "", num_queues |-> 0, bucket |-> NoAttr]
NoArgs == [bucket |-> "", file_prefix |-> "", queue_base |-> "", num_queues |-> 0]

\* __init__: the three attributes are assigned, then the bucket is looked
\* up; exceptions.NotFound is caught and reported by a print, which leaves
\* self.bucket unassigned and the constructor returning normally.
Construct(a, exists) ==
    [file_prefix |-> a.file_prefix, queue_base |-> a.queue_base,
     num_queues |-> a.num_queues,
     bucket |-> IF exists THEN a.bucket ELSE NoAttr]

\* A list_date that keeps the day's prefix on the processor.
SelfAfterListDateKeepsPrefix(self, prefix) == [self EXCEPT !.file_prefix = prefix]

\* list_date assigns no attribute of self: prefix, it and p are locals.
SelfAfterListDate(self, prefix) == self

\* A router that takes the day of the month for the ordinal.
QueueNameByDayOfMonth(self, date) ==
    IF self.num_queues > 1
    THEN self.queue_base \o "_" \o Decimal(date.d % self.num_queues)
    ELSE self.queue_base

\* A router that suffixes the name whenever the count is not zero.
QueueNameAlwaysSuffixed(self, date) ==
    IF self.num_queues > 1 \/ self.num_queues = 1
    THEN self.queue_base \o "_" \o Decimal(toordinal(date) % self.num_queues)
    ELSE self.queue_base

\* post_whole_day: the local queue_name when the method ends.
QueueName(self, date) ==
    IF self.num_queues > 1
    THEN self.queue_base \o "_" \o Decimal(toordinal(date) % self.num_queues)
    ELSE self.queue_base

-----------------------------------------------------------------------------
(* Inputs.                                                                 *)

QueueCounts == (0 - NegQueues) .. MaxQueues
QueueBases == {"etl-ndt-batch", "base"}
FilePrefixes == {"ndt/", "sidestream/"}
PageLimits == (1 .. MaxPage) \cup {1000}

\* The days a routing sweep starts from.
StartDates == {D1, Date(2016, 2, 24), Date(2016, 12, 26), Date(1900, 2, 23),
               Date(2000, 2, 25), Date(1, 1, 1)}

\* main's constants: ArchiveProcessor(args.bucket, "ndt/", "base", 5)
MainNumQueues == 5

TypeOK ==
    /\ bucket_exists \in BOOLEAN
    /\ pc \in {"idle", "pages", "page", "parse", "construct", "print_bucket",
               "list_date", "exit"}
    /\ caller \in {"api", "main"}
    /\ raised \in {"none", "AttributeError", "SystemExit"}
    /\ ret = "None"
    /\ Len(listings) <= MaxCalls
    /\ Len(log) <= MaxSweep

InitCommon ==
    /\ bucket_exists \in BOOLEAN
    /\ list_day = NoDate
    /\ it = NoIterator
    /\ page = <<>>
    /\ listed = <<>>
    /\ listings = <<>>
    /\ log = <<>>
    /\ submitted = {}
    /\ attempted = {}
    /\ last_call = "none"
    /\ ret = "None"
    /\ raised = "none"

\* An ArchiveProcessor constructed with the arguments a.
InitApi(a) ==
    /\ InitCommon
    /\ caller = "api"
    /\ pc = "idle"
    /\ args = a
    /\ processor = Construct(a, bucket_exists)
    /\ oops = ~bucket_exists
    /\ argv = [start |-> NoDate, end |-> NoDate, modN |-> 0, bucket |-> ""]
    /\ parsed = [start_date |-> NoDate, end_date |-> NoDate, modN |-> 0, bucket |-> ""]
    /\ today = NoDate
    /\ days_listed = <<>>

Init ==
    /\ \E n1 \in {0, 1} : store = StoreOf(n1, 1)
    /\ page_limit = 1000
    /\ rejects = {"ndt/2017/10/25/01.tgz"}
    /\ \E qb \in QueueBases, n \in QueueCounts :
         InitApi([bucket |-> BucketName, file_prefix |-> "ndt/", queue_base |-> qb,
                  num_queues |-> n])

InitList ==
    /\ \E n1 \in 0 .. MaxBlobs : store = StoreOf(n1, 1)
    /\ page_limit \in PageLimits
    /\ rejects = {}
    /\ \E fp \in FilePrefixes :
         InitApi([bucket |-> BucketName, file_prefix |-> fp, queue_base |-> "base",
                  num_queues |-> MainNumQueues])

-----------------------------------------------------------------------------
(* list_date.                                                              *)

\* Where control goes when list_date ends.
AfterList == IF caller = "main" THEN "exit" ELSE "idle"

\* list_date(date), up to the creation of the iterator: the prefix is
\* formatted, then self.bucket is read (AttributeError when __init__ left it
\* unassigned).
ListDateEnter(date) ==
    /\ last_call' = "list_date"
    /\ list_day' = date
    /\ listed' = <<>>
    /\ page' = <<>>
    /\ ret' = "None"
    /\ IF processor.bucket = NoAttr
       THEN /\ raised' = "AttributeError"
            /\ pc' = AfterList
            /\ it' = NoIterator
            /\ processor' = processor
       ELSE /\ raised' = "none"
            /\ pc' = "pages"
            /\ it' = NewIterator(ListPrefix(processor, date))
            /\ processor' = SelfAfterListDate(processor, ListPrefix(processor, date))

\* for p in it.pages: the next page is fetched, or the loop ends and
\* list_date returns (None) after printing "done iterating".
NextPage ==
    /\ pc = "pages"
    /\ IF HasNextPage(it)
       THEN /\ page' = PageItems(it)
            /\ it' = AfterPage(it)
            /\ pc' = "page"
            /\ UNCHANGED <<listings, ret>>
       ELSE /\ pc' = AfterList
            /\ ret' = "None"
            /\ listings' =
                 Append(listings, [date |-> list_day, keys |-> Range(listed)])
            /\ UNCHANGED <<page, it>>
    /\ UNCHANGED <<envVars, mainVars, queueVars, args, processor, oops, caller,
                   list_day, listed, log, last_call, raised>>

\* while p.remaining > 0: print p.next()
PageNext ==
    /\ pc = "page"
    /\ IF Len(page) > 0
       THEN /\ listed' = Append(listed, Head(page))
            /\ page' = Tail(page)
            /\ pc' = "page"
       ELSE /\ pc' = "pages"
            /\ UNCHANGED <<listed, page>>
    /\ UNCHANGED <<envVars, mainVars, queueVars, args, processor, oops, caller,
                   list_day, it, listings, log, last_call, ret, raised>>

-----------------------------------------------------------------------------
(* Direct calls of the methods.                                            *)

ApiListDate(date) ==
    /\ caller = "api"
    /\ pc = "idle"
    /\ Len(listings) < MaxCalls
    /\ ListDateEnter(date)
    /\ UNCHANGED <<envVars, mainVars, queueVars, args, oops, caller,
                   listings, log>>

\* post(tags, files): the body is pass.
ApiPost ==
    /\ caller = "api"
    /\ pc = "idle"
    /\ last_call' = "post"
    /\ ret' = "None"
    /\ raised' = "none"
    /\ UNCHANGED <<envVars, mainVars, queueVars, listVars, args, processor, oops,
                   pc, caller, log>>

\* post_whole_day(date): queue_name is computed and dropped; neither
\* list_date nor post is called, and nothing is returned.  The history log
\* keeps the names of a run of consecutive days.
ApiPostWholeDay(date) ==
    /\ caller = "api"
    /\ pc = "idle"
    /\ last_call' = "post_whole_day"
    /\ ret' = "None"
    /\ raised' = "none"
    /\ LET entry == [date |-> date, queue_name |-> QueueName(processor, date)]
       IN log' = IF /\ log # <<>>
                    /\ Len(log) < MaxSweep
                    /\ date = NextDay(log[Len(log)].date)
                 THEN Append(log, entry)
                 ELSE <<entry>>
    /\ UNCHANGED <<envVars, mainVars, queueVars, listVars, args, processor, oops,
                   pc, caller>>

\* The dates post_whole_day is called with: the start of a sweep, or the
\* day after the last one.
SweepDates ==
    StartDates \cup (IF log # <<>> /\ Len(log) < MaxSweep
                     THEN {NextDay(log[Len(log)].date)} ELSE {})

-----------------------------------------------------------------------------
(* main(argv).                                                             *)

MainStarts == {NoDate, Date(2017, 10, 1)}
MainEnds == {NoDate, Date(2017, 10, 1), Date(2017, 10, 3)}
Todays == {Date(2017, 10, 27), Date(2017, 1, 7), Date(2017, 3, 2), Date(2016, 3, 1),
           Date(2018, 1, 1)}

InitMain ==
    /\ InitCommon
    /\ \E n1 \in 0 .. MaxBlobs : store = StoreOf(n1, 1)
    /\ page_limit \in {MaxPage, 1000}
    /\ rejects = {}
    /\ caller = "main"
    /\ pc = "parse"
    /\ args = NoArgs
    /\ processor = Unbuilt
    /\ oops = FALSE
    /\ \E s \in MainStarts, e \in MainEnds, n \in {0 - 1, 3, 5} :
         argv = [start |-> s, end |-> e, modN |-> n, bucket |-> BucketName]
    /\ parsed = [start_date |-> NoDate, end_date |-> NoDate, modN |-> 0, bucket |-> ""]
    /\ today \in Todays
    /\ days_listed = <<>>

\* --end_date's default '00010101', converted by strptime.
EndSentinel == Date(1, 1, 1)

\* parse_cmdline(argv[1:]).  A flag left out takes its default, and argparse
\* converts a string default with the flag's type: --start_date's default ''
\* does not match '%Y%m%d', which ends the run (argparse's error, exit 2).
MainParse ==
    /\ caller = "main"
    /\ pc = "parse"
    /\ IF argv.start = NoDate
       THEN /\ raised' = "SystemExit"
            /\ pc' = "exit"
            /\ UNCHANGED parsed
       ELSE /\ parsed' = [start_date |-> argv.start,
                          end_date |-> IF argv.end = NoDate THEN EndSentinel ELSE argv.end,
                          modN |-> argv.modN, bucket |-> argv.bucket]
            /\ pc' = "construct"
            /\ UNCHANGED raised
    /\ UNCHANGED <<envVars, queueVars, listVars, args, processor, oops, caller, log,
                   last_call, ret, argv, today, days_listed>>

\* processor = ArchiveProcessor(args.bucket, "ndt/", "base", 5)
MainConstruct ==
    /\ caller = "main"
    /\ pc = "construct"
    /\ args' = [bucket |-> parsed.bucket, file_prefix |-> "ndt/", queue_base |-> "base",
                num_queues |-> MainNumQueues]
    /\ processor' = Construct(args', bucket_exists)
    /\ oops' = ~bucket_exists
    /\ pc' = "print_bucket"
    /\ last_call' = "__init__"
    /\ UNCHANGED <<envVars, mainVars, queueVars, listVars, caller, log, ret, raised>>

\* print processor.bucket; today = ...; day = today - timedelta(days=2).
\* The AttributeError of a processor without bucket is not an
\* exceptions.NotFound: main's except clause does not catch it.
MainPrintBucket ==
    /\ caller = "main"
    /\ pc = "print_bucket"
    /\ IF processor.bucket = NoAttr
       THEN /\ raised' = "AttributeError"
            /\ pc' = "exit"
       ELSE /\ raised' = "none"
            /\ pc' = "list_date"
    /\ UNCHANGED <<envVars, mainVars, queueVars, listVars, args, processor, oops,
                   caller, log, last_call, ret>>

\* processor.list_date(day)
MainListDate ==
    /\ caller = "main"
    /\ pc = "list_date"
    /\ ListDateEnter(PrevDay(PrevDay(today)))
    /\ days_listed' = Append(days_listed, PrevDay(PrevDay(today)))
    /\ UNCHANGED <<envVars, queueVars, args, oops, caller, listings, log,
                   argv, parsed, today>>

-----------------------------------------------------------------------------
(* Specifications.                                                         *)

\* Routing sweeps, with list_date and post called in between.
ApiNext ==
    \/ ApiListDate(D1)
    \/ NextPage
    \/ PageNext
    \/ ApiPost
    \/ \E date \in SweepDates : ApiPostWholeDay(date)

MainNext ==
    \/ MainParse
    \/ MainConstruct
    \/ MainPrintBucket
    \/ MainListDate
    \/ NextPage
    \/ PageNext

\* The same calls, post_whole_day on the days that are listed.
ListNext ==
    \/ \E date \in ListDates : ApiListDate(date)
    \/ NextPage
    \/ PageNext
    \/ ApiPost
    \/ \E date \in ListDates : ApiPostWholeDay(date)

Next == ApiNext

Spec == Init /\ [][Next]_vars
SpecList == InitList /\ [][ListNext]_vars
SpecMain == InitMain /\ [][MainNext]_vars

-----------------------------------------------------------------------------
(* Definitions the properties are stated with.                             *)

\* The proleptic Gregorian ordinal computed the other way round: days
\* counted in 400-year eras of 146097 days from March 1st, year 0.
GregorianOrdinal(date) ==
    LET y == IF date.m <= 2 THEN date.y - 1 ELSE date.y
        era == y \div 400
        yoe == y - era * 400
        mp == IF date.m > 2 THEN date.m - 3 ELSE date.m + 9
        doy == ((153 * mp + 2) \div 5) + date.d - 1
        doe == yoe * 365 + (yoe \div 4) - (yoe \div 100) + doy
    IN era * 146097 + doe - 305

RECURSIVE DaysFromTo(_, _)
\* The calendar days from start to end inclusive, ascending.
DaysFromTo(start, end) ==
    IF GregorianOrdinal(start) > GregorianOrdinal(end) THEN <<>>
    ELSE <<start>> \o DaysFromTo(NextDay(start), end)

\* The objects the store lists for a date under the processor's prefix.
ObjectsFor(date) ==
    IF processor.bucket = NoAttr THEN {}
    ELSE Range(Matching(processor.file_prefix \o FormatDate(date)))

\* The last post_whole_day call has returned.
PostedWholeDay == pc = "idle" /\ last_call = "post_whole_day" /\ log # <<>>
LastPosted == log[Len(log)]

\* The last list_date call has returned normally.
ListedDate == pc = "idle" /\ last_call = "list_date" /\ raised = "none"

SubmittedKeys == {t[2] : t \in submitted}

-----------------------------------------------------------------------------
(* Properties.                                                             *)

\* C1: with more than one queue, the name post_whole_day computes for a date
\* is the base name, "_", and the decimal value of the date's Gregorian
\* ordinal mod the queue count; two dates whose ordinals are equal mod the
\* count get the same name.
C1_RouterSuffix ==
    processor.num_queues > 1 =>
        \A i \in DOMAIN log :
            /\ log[i].queue_name =
                 processor.queue_base \o "_"
                   \o Decimal(GregorianOrdinal(log[i].date) % processor.num_queues)
            /\ \A j \in DOMAIN log :
                 (GregorianOrdinal(log[i].date) % processor.num_queues
                    = GregorianOrdinal(log[j].date) % processor.num_queues)
                 => log[i].queue_name = log[j].queue_name

\* Two different days of one sweep with equal ordinals mod the count have
\* been routed, and so has a day whose remainder has two digits.
C1_Witness ==
    /\ processor.num_queues > 1
    /\ \E i, j \in DOMAIN log :
         /\ log[i].date # log[j].date
         /\ GregorianOrdinal(log[i].date) % processor.num_queues
              = GregorianOrdinal(log[j].date) % processor.num_queues
    /\ \E k \in DOMAIN log :
         GregorianOrdinal(log[k].date) % processor.num_queues >= 10

\* C2: with a queue count of one or less, post_whole_day's name is the base
\* name unmodified, whatever the date.
C2_SingleQueue ==
    processor.num_queues <= 1 =>
        \A i \in DOMAIN log : log[i].queue_name = args.queue_base

\* Several days have been routed by a processor with one queue.
C2_Witness ==
    /\ processor.num_queues = 1
    /\ Len(log) >= 3
    /\ log[1].date # log[2].date

\* C3: with N > 1 queues, every run of N consecutive calendar days is routed
\* to N distinct queue names.
C3_ConsecutiveDaysSpread ==
    processor.num_queues > 1 =>
        \A i \in DOMAIN log :
            i + processor.num_queues - 1 <= Len(log) =>
                /\ \A k \in i .. (i + processor.num_queues - 2) :
                     log[k + 1].date = NextDay(log[k].date)
                /\ Cardinality({log[k].queue_name :
                                  k \in i .. (i + processor.num_queues - 1)})
                     = processor.num_queues

\* A run of N consecutive days across a leap day has been routed, N > 2.
C3_Witness ==
    /\ processor.num_queues > 2
    /\ Len(log) >= processor.num_queues
    /\ \E i \in DOMAIN log :
         /\ i < processor.num_queues
         /\ log[i].date = Date(2016, 2, 29)

\* C4: a negative queue count fails with InvalidConfiguration before any
\* listing begins, and no queue name is produced for it: whatever is called
\* on a processor configured with one, that failure is what comes out.
C4_NegativeCountRejected ==
    (args.num_queues < 0 /\ bucket_exists /\ last_call # "none") =>
        /\ raised = "InvalidConfiguration"
        /\ log = <<>>
        /\ listings = <<>>
        /\ pc = "idle"

\* C5: when the bucket does not exist the run fails with the bucket's
\* NotFound, the construction of the processor does not complete normally,
\* and list_date is never called.
C5_MissingBucketAborts ==
    (~bucket_exists /\ last_call = "__init__") =>
        /\ raised = "NotFound"
        /\ processor = Unbuilt
        /\ pc = "exit"
        /\ days_listed = <<>>

\* C6: a list_date that has returned has printed every key under the date's
\* prefix exactly once.
C6_ExhaustiveListing ==
    ListedDate =>
        /\ Range(listed) = ObjectsFor(list_day)
        /\ Len(listed) = Cardinality(ObjectsFor(list_day))

\* C7: processing a date attempts the submission of every listed object,
\* submits those the queue service accepts, and fails with
\* PartialPostFailure naming exactly the refused ones.
C7_BestEffortSubmission ==
    PostedWholeDay =>
        LET objs == ObjectsFor(LastPosted.date) IN
        /\ attempted = objs
        /\ SubmittedKeys = objs \ rejects
        /\ (objs \cap rejects # {} =>
              /\ raised = "PartialPostFailure"
              /\ attempted \ SubmittedKeys = objs \cap rejects)

\* C8: processing a date submits one task per listed object, each to the
\* date's queue, and returns their number; no object, no submission and no
\* error (the result of a date without objects is left open here: the
\* method returns None for every date).
C8_OneTaskPerObject ==
    PostedWholeDay =>
        LET objs == ObjectsFor(LastPosted.date) IN
        /\ submitted = {<<LastPosted.queue_name, k>> : k \in objs}
        /\ (objs # {} => ret = Decimal(Cardinality(objs)))
        /\ (objs = {} => raised = "none")

\* C9: a run that ends normally has listed every day from the start date to
\* the end date, once each and ascending; one day when the end date is left
\* at its sentinel.
C9_ListsTheRange ==
    (caller = "main" /\ pc = "exit" /\ raised = "none") =>
        IF parsed.end_date = EndSentinel
        THEN Len(days_listed) = 1
        ELSE days_listed = DaysFromTo(parsed.start_date, parsed.end_date)

\* C10: list_date keeps nothing on the processor: finished calls with the
\* same date have printed the same set of keys, whatever was called in
\* between, and file_prefix, queue_base and num_queues stay as constructed.
C10_ListDateIdempotent ==
    /\ \A i, j \in DOMAIN listings :
         listings[i].date = listings[j].date => listings[i].keys = listings[j].keys
    /\ processor.file_prefix = args.file_prefix
    /\ processor.queue_base = args.queue_base
    /\ processor.num_queues = args.num_queues

\* The same date has been listed twice, a post_whole_day and a list_date of
\* the other date in between, and each call printed several keys.
C10_Witness ==
    /\ Len(listings) = 3
    /\ listings[1].date = listings[3].date
    /\ listings[2].date # listings[1].date
    /\ Cardinality(listings[3].keys) > 1
    /\ log # <<>>

====
